---------------------------- MODULE Spec2Model ----------------------------
(***************************************************************************)
(* A model of gitupdt (src/gitupdt/gitupdt.py): the version-tag index      *)
(* (get_sorted_tags), the divergence detector (has_remote_updates), the    *)
(* menu builder (check_remote_updates) and the reconciliation engine with  *)
(* its dependency diff reporter (perform_update).                          *)
(*                                                                         *)
(* Three specifications share the variables:                               *)
(*   Spec       a repository and its remote; the detector and the menu     *)
(*              builder are called on it while the remote changes.         *)
(*   SpecTags   get_sorted_tags and the tag part of the menu on tag lists  *)
(*              drawn from bounded sets (arbitrary short lists, and long   *)
(*              runs of distinct versions).                                *)
(*   SpecUpdate one selection from the menu carried through                *)
(*              perform_update, one step per phase of the function.        *)
(***************************************************************************)
EXTENDS Integers, Sequences, FiniteSets, TLC

(***************************************************************************)
(* Names.  A tag or branch name is a string; what the program does with    *)
(* one is compare it to another and hand it to packaging's version.parse.  *)
(* A name is kept in the parts that parse reads: the text before the       *)
(* release ("" or "v" for a version, anything else for a name that is not  *)
(* one), and the dot-separated release numbers.  remote is "origin" for a  *)
(* remote-tracking ref such as origin/main.                                *)
(***************************************************************************)
Name(p, r) == [remote |-> "", prefix |-> p, release |-> r]

\* Python's None, for a name that is absent.
NoName == Name("<None>", <<>>)

Origin(n) == [n EXCEPT !.remote = "origin"]

HEADRef == Name("HEAD", <<>>)

Main == Name("main", <<>>)

\* A branch that is named like a version tag.
B130 == Name("", <<1, 3, 0>>)

T090 == Name("", <<0, 9, 0>>)

T120 == Name("", <<1, 2, 0>>)

T130 == Name("", <<1, 3, 0>>)

\* "v1.3" : another name of version 1.3.0.
V13 == Name("v", <<1, 3>>)

TBad == Name("not-a-version", <<>>)

(***************************************************************************)
(* version.parse: raises InvalidVersion unless the name is an optional     *)
(* "v" followed by a release; a Version compares by its release with the   *)
(* trailing zeros dropped, as a tuple.                                     *)
(***************************************************************************)
IsValidVersion(tag) ==
    /\ tag.remote = ""
    /\ tag.prefix \in {"", "v"}
    /\ tag.release # <<>>

RECURSIVE StripZeros(_)
StripZeros(r) ==
    IF r # <<>> /\ r[Len(r)] = 0
    THEN StripZeros(SubSeq(r, 1, Len(r) - 1))
    ELSE r

ParseVersion(tag) == StripZeros(tag.release)

RECURSIVE TupleLess(_, _)
TupleLess(a, b) ==
    IF a = <<>> THEN b # <<>>
    ELSE IF b = <<>> THEN FALSE
    ELSE IF a[1] # b[1] THEN a[1] < b[1]
    ELSE TupleLess(Tail(a), Tail(b))

\* version.parse(a) > version.parse(b), both parsing.
VersionGreater(a, b) == TupleLess(ParseVersion(b), ParseVersion(a))

\* The comparison with >= in place of >.
IsNewerOrSame(latest, current) ==
    /\ IsValidVersion(latest)
    /\ IsValidVersion(current)
    /\ ~VersionGreater(current, latest)

\* try: version.parse(latest) > version.parse(current)
\* except InvalidVersion: pass        (the comparison counts as not newer)
IsNewer(latest, current) ==
    /\ IsValidVersion(latest)
    /\ IsValidVersion(current)
    /\ VersionGreater(latest, current)

(***************************************************************************)
(* get_sorted_tags                                                         *)
(***************************************************************************)
\* The loop of lines 18-23: the tags that parse, in enumeration order.
ValidTags(all_tags) == SelectSeq(all_tags, IsValidVersion)

\* A sort that is not stable: x goes before the first entry that is not newer.
RECURSIVE InsertDescendingUnstable(_, _)
InsertDescendingUnstable(s, x) ==
    IF s = <<>> THEN <<x>>
    ELSE IF ~VersionGreater(Head(s), x) THEN <<x>> \o s
    ELSE <<Head(s)>> \o InsertDescendingUnstable(Tail(s), x)

\* list.sort(key=version, reverse=True) is stable: x goes before the first
\* entry whose version is strictly less than its own.
RECURSIVE InsertDescending(_, _)
InsertDescending(s, x) ==
    IF s = <<>> THEN <<x>>
    ELSE IF VersionGreater(x, Head(s)) THEN <<x>> \o s
    ELSE <<Head(s)>> \o InsertDescending(Tail(s), x)

RECURSIVE SortDescending(_)
SortDescending(s) ==
    IF s = <<>> THEN <<>>
    ELSE InsertDescending(SortDescending(SubSeq(s, 1, Len(s) - 1)), s[Len(s)])

get_sorted_tags(all_tags) == SortDescending(ValidTags(all_tags))


(***************************************************************************)
(* Bounds of the model.                                                    *)
(***************************************************************************)
\* The largest number of commits a remote branch is ahead of HEAD.
MaxBehind == 1

\* The largest number of tags published on the remote and not yet fetched.
MaxNewTags == 1

\* The longest arbitrary tag list get_sorted_tags is applied to.
MaxTags == 4

\* The longest run of distinct valid version tags in a repository.
MaxRun == 12

\* for tag in sorted_tags[:10]  (line 537)
OtherTagsSlice == 10

(***************************************************************************)
(* The repository and its remote.                                          *)
(***************************************************************************)
VARIABLES
    repo_tags,        \* [t.name for t in repo.tags], in enumeration order
    head_tags,        \* repo.git.tag(points_at=HEAD), split into names
    active_branch,    \* repo.active_branch.name; NoName when HEAD is detached
    tracking,         \* whether active_branch.tracking_branch() is set
    default_branch,   \* the "HEAD branch:" of git remote show origin, or NoName
    local_ahead,      \* per branch b: commits of the local ref origin/b not in HEAD
    remote_ahead,     \* per branch b: the same count on the remote itself
    remote_new_tags,  \* tags on the remote that no fetch has brought yet
    last_call         \* the last call of a function of the program and its result

VARIABLES
    pc,               \* where the run of check_remote_updates/perform_update is
    caller,           \* who called perform_update
    reset_mode,       \* the --reset flag (perform_update's reset argument)
    selection,        \* the value select() returned: {'action', 'target'} or ""
    uv_installed,     \* shutil.which('uv') is not None
    origin_ref,       \* whether origin/<target> resolves, where reset is asked
    git_log,          \* the repo.git commands executed, in order, with their outcome
    pyproject_file,   \* what pyproject.toml held before and after the action
    reqs_file,        \* what requirements.txt held before and after the action
    before_deps,      \* perform_update's locals of the same names
    after_deps,
    before_reqs,
    after_reqs,
    out               \* what the run printed, prompted and raised

update_vars == <<pc, caller, reset_mode, selection, uv_installed, origin_ref,
                 git_log, pyproject_file, reqs_file, before_deps, after_deps,
                 before_reqs, after_reqs, out>>

repo_vars == <<repo_tags, head_tags, active_branch, tracking, default_branch,
               local_ahead, remote_ahead, remote_new_tags>>

Branches == {Main, B130}

\* The tag names of the repository under Spec, in refname order.
TagCatalog == <<T120, T130, TBad>>

Range(s) == {s[i] : i \in 1..Len(s)}

InSeq(x, s) == x \in Range(s)

\* The subsequences of s (the elements of a subset, in the order of s).
SubLists(s) ==
    {SelectSeq(s, LAMBDA x : x \in S) : S \in SUBSET Range(s)}

\* What can go wrong in one detection pass: nothing, the fetch, the count of
\* active..tracking, git remote show origin, the count of HEAD..origin/<default>.
Faults == {"none", "fetch", "behind", "show", "defbehind"}

\* The counts as they were before the fetch.
DetectAheadStale == local_ahead

\* The commit counts and the tags a detection pass reads: those its own fetch
\* left (origin.fetch is the first statement of both passes).
DetectAhead == remote_ahead


(***************************************************************************)
(* origin.fetch(tags=True): the remote-tracking refs and the tags of the   *)
(* remote become the local ones.                                           *)
(***************************************************************************)
FetchedTags == repo_tags \o remote_new_tags

Fetch ==
    /\ local_ahead' = remote_ahead
    /\ repo_tags' = FetchedTags
    /\ remote_new_tags' = <<>>
    /\ UNCHANGED <<head_tags, active_branch, tracking, default_branch, remote_ahead>>

(***************************************************************************)
(* has_remote_updates                                                      *)
(***************************************************************************)
\* return False, {}
NoUpdate ==
    [found |-> FALSE, type |-> "none", current |-> NoName, latest |-> NoName,
     behind_count |-> 0]

Candidate(type, current, latest, behind) ==
    [found |-> TRUE, type |-> type, current |-> current, latest |-> latest,
     behind_count |-> behind]

\* lines 381-386
DetectCurrentTag(ab, ht) ==
    IF ht = <<>> THEN NoName
    ELSE IF ab # NoName /\ InSeq(ab, ht) THEN ab
    ELSE ht[1]

\* latest_tag = sorted_tags[0] if sorted_tags else None
LatestTag(tags) ==
    LET sorted_tags == get_sorted_tags(tags)
    IN  IF sorted_tags = <<>> THEN NoName ELSE sorted_tags[1]

\* lines 362-375: the branch check; reached once the fetch succeeded.
BranchCheck(ab, trk, ahead) ==
    IF ab # NoName /\ trk /\ ahead[ab] > 0
    THEN Candidate("branch", ab, Origin(ab), ahead[ab])
    ELSE NoUpdate

\* lines 377-401: the tag check.
TagCheck(ab, tags, ht) ==
    LET latest_tag == LatestTag(tags)
        current_tag_name == DetectCurrentTag(ab, ht)
    IN  IF /\ latest_tag # NoName
           /\ current_tag_name # NoName
           /\ IsNewer(latest_tag, current_tag_name)
        THEN Candidate("tag", current_tag_name, latest_tag, 0)
        ELSE NoUpdate

\* lines 403-425: the default branch check; a failure of the count is
\* caught (line 424), a failure of git remote show is not.
DefaultBranchCheck(fault, ahead, db) ==
    IF db # NoName /\ fault # "defbehind" /\ ahead[db] > 0
    THEN Candidate("default_branch", HEADRef, db, ahead[db])
    ELSE NoUpdate

\* The tag check made before the branch check.
has_remote_updates_TagFirst(fault, ab, trk, ahead, tags, ht, db) ==
    LET branch == BranchCheck(ab, trk, ahead)
        tag == TagCheck(ab, tags, ht)
    IN  IF fault = "fetch" THEN NoUpdate
        ELSE IF tag.found THEN tag
        ELSE IF ab # NoName /\ trk /\ fault = "behind" THEN NoUpdate
        ELSE IF branch.found THEN branch
        ELSE IF fault = "show" THEN NoUpdate
        ELSE DefaultBranchCheck(fault, ahead, db)

\* The body of the outer try (lines 358-430) on the repository as the fetch
\* left it: the first check that finds an update returns it.
has_remote_updates(fault, ab, trk, ahead, tags, ht, db) ==
    LET branch == BranchCheck(ab, trk, ahead)
        tag == TagCheck(ab, tags, ht)
    IN  IF fault = "fetch" THEN NoUpdate
        ELSE IF ab # NoName /\ trk /\ fault = "behind" THEN NoUpdate
        ELSE IF branch.found THEN branch
        ELSE IF tag.found THEN tag
        ELSE IF fault = "show" THEN NoUpdate
        ELSE DefaultBranchCheck(fault, ahead, db)


(***************************************************************************)
(* check_remote_updates, up to the menu                                    *)
(***************************************************************************)
\* Choice(title=..., value={'action': ..., 'target': ...}); of the title, the
\* behind count and the " (Latest)" suffix are kept.
Choice(action, target, behind, latest) ==
    [action |-> action, target |-> target, behind_label |-> behind,
     latest_label |-> latest]

\* lines 473-478
MenuCurrentTag(ab, ht) ==
    IF ht = <<>> THEN NoName
    ELSE IF ab # NoName THEN ab
    ELSE ht[1]

\* lines 485-500: git remote show origin failing is caught there (line 499).
DefaultChoices(fault, ab, db) ==
    IF fault # "show" /\ db # NoName /\ (ab = NoName \/ ab # db)
    THEN <<Choice("checkout_pull", db, 0, FALSE)>>
    ELSE <<>>

\* The pull offered only when behind, whatever the mode.
PullChoicesBehindOnly(reset, ab, trk, ahead) ==
    IF ab # NoName /\ trk /\ ahead[ab] > 0
    THEN <<Choice("pull", ab, ahead[ab], FALSE)>>
    ELSE <<>>

\* lines 505-517
PullChoices(reset, ab, trk, ahead) ==
    IF ab # NoName /\ trk /\ (ahead[ab] > 0 \/ reset)
    THEN <<Choice("pull", ab, ahead[ab], FALSE)>>
    ELSE <<>>

\* lines 519-534
LatestTagChoices(tags, current_tag_name) ==
    LET latest_tag == LatestTag(tags)
    IN  IF latest_tag = NoName THEN <<>>
        ELSE <<Choice("checkout", latest_tag, 0,
                      current_tag_name # NoName
                          /\ IsNewer(latest_tag, current_tag_name))>>

\* sorted_tags[:10]
OtherTagsWindow(sorted_tags) ==
    SubSeq(sorted_tags, 1,
           IF Len(sorted_tags) < OtherTagsSlice THEN Len(sorted_tags)
           ELSE OtherTagsSlice)

\* lines 536-539
OtherTagChoices(tags) ==
    LET latest_tag == LatestTag(tags)
        others == SelectSeq(OtherTagsWindow(get_sorted_tags(tags)),
                            LAMBDA t : t # latest_tag)
    IN  [i \in 1..Len(others) |-> Choice("checkout", others[i], 0, FALSE)]

\* The pull entry appended before the default-branch entry.
MenuChoicesPullFirst(reset, fault, ab, trk, ahead, tags, ht, db) ==
    PullChoices(reset, ab, trk, ahead)
        \o DefaultChoices(fault, ab, db)
        \o LatestTagChoices(tags, MenuCurrentTag(ab, ht))
        \o OtherTagChoices(tags)

\* lines 481-539: choices, in the order of the appends
MenuChoices(reset, fault, ab, trk, ahead, tags, ht, db) ==
    DefaultChoices(fault, ab, db)
        \o PullChoices(reset, ab, trk, ahead)
        \o LatestTagChoices(tags, MenuCurrentTag(ab, ht))
        \o OtherTagChoices(tags)

\* Separator()
SeparatorChoice == Choice("<separator>", NoName, 0, FALSE)

\* Choice(title="Cancel", value="")
CancelChoice == Choice("", NoName, 0, FALSE)

\* lines 545-548: what select() is given
Presented(choices) == choices \o <<SeparatorChoice, CancelChoice>>

\* git remote show origin failing outside the inner try.
MenuOutcomeShowFatal(fault, ab, trk, choices) ==
    IF fault \in {"fetch", "show"} THEN "error"
    ELSE IF fault = "behind" /\ ab # NoName /\ trk THEN "error"
    ELSE IF choices = <<>> THEN "no_updates"
    ELSE "menu"

\* How the pass ends: "error" is the outer except (line 554), reached from
\* the fetch (line 459) and from the count of line 507; "no_updates" is line
\* 542; "menu" is select() being given the choices (line 548).
MenuOutcome(fault, ab, trk, choices) ==
    IF fault = "fetch" THEN "error"
    ELSE IF fault = "behind" /\ ab # NoName /\ trk THEN "error"
    ELSE IF choices = <<>> THEN "no_updates"
    ELSE "menu"

(***************************************************************************)
(* Calls.  last_call holds what the last call returned or presented.       *)
(***************************************************************************)
NoCall ==
    [fn |-> "none", fault |-> "none", reset |-> FALSE, repeat |-> FALSE,
     result |-> NoUpdate, outcome |-> "none", choices |-> <<>>,
     presented |-> <<>>, sorted |-> <<>>]

\* What can go wrong in has_remote_updates, and in check_remote_updates
\* (which never counts HEAD..origin/<default>).
DetectFaults == Faults

MenuFaults == Faults \ {"defbehind"}

\* has_remote_updates(repo_path).  repeat: the call before was the same one,
\* meeting the same fault, and the remote has not changed since.
HasRemoteUpdates ==
    \E fault \in DetectFaults :
        /\ IF fault = "fetch" THEN UNCHANGED repo_vars ELSE Fetch
        /\ last_call' =
               [NoCall EXCEPT
                   !.fn = "has_remote_updates",
                   !.fault = fault,
                   !.repeat = (last_call.fn = "has_remote_updates"
                                   /\ last_call.fault = fault),
                   !.result = has_remote_updates(fault, active_branch, tracking,
                                  DetectAhead, FetchedTags, head_tags,
                                  default_branch)]
        /\ UNCHANGED update_vars

\* check_remote_updates(repo_path, reset), up to select()
CheckRemoteUpdates ==
    \E fault \in MenuFaults, reset \in BOOLEAN :
        LET choices == MenuChoices(reset, fault, active_branch, tracking,
                           DetectAhead, FetchedTags, head_tags, default_branch)
            outcome == MenuOutcome(fault, active_branch, tracking, choices)
        IN  /\ IF fault = "fetch" THEN UNCHANGED repo_vars ELSE Fetch
            /\ last_call' =
                   [NoCall EXCEPT
                       !.fn = "check_remote_updates",
                       !.fault = fault,
                       !.reset = reset,
                       !.outcome = outcome,
                       !.choices = IF outcome = "menu" THEN choices ELSE <<>>,
                       !.presented = IF outcome = "menu" THEN Presented(choices)
                                     ELSE <<>>]
            /\ UNCHANGED update_vars

\* get_sorted_tags(repo), called on its own
GetSortedTags ==
    /\ last_call' =
           [NoCall EXCEPT
               !.fn = "get_sorted_tags",
               !.sorted = get_sorted_tags(repo_tags)]
    /\ UNCHANGED repo_vars
    /\ UNCHANGED update_vars

\* The remote: a commit is pushed to branch b.
RemotePush ==
    \E b \in Branches :
        /\ remote_ahead[b] < MaxBehind
        /\ remote_ahead' = [remote_ahead EXCEPT ![b] = @ + 1]
        /\ last_call' = NoCall
        /\ UNCHANGED <<repo_tags, head_tags, active_branch, tracking,
                       default_branch, local_ahead, remote_new_tags>>
        /\ UNCHANGED update_vars

\* The remote: a tag is published.
RemotePublishTag ==
    \E t \in Range(TagCatalog) :
        /\ Len(remote_new_tags) < MaxNewTags
        /\ ~InSeq(t, FetchedTags)
        /\ remote_new_tags' = Append(remote_new_tags, t)
        /\ last_call' = NoCall
        /\ UNCHANGED <<repo_tags, head_tags, active_branch, tracking,
                       default_branch, local_ahead, remote_ahead>>
        /\ UNCHANGED update_vars

(***************************************************************************)
(* Dependency manifests.                                                   *)
(***************************************************************************)
\* The longest dependency list of a manifest.
MaxDeps == 2

\* The dependency strings, in Python's string order.
DepOrder == <<"a", "b">>

Deps == Range(DepOrder)

DepRank(d) == CHOOSE i \in 1..Len(DepOrder) : DepOrder[i] = d

DepLists == UNION {[1..n -> Deps] : n \in 0..MaxDeps}

\* A manifest at one moment: absent (os.path.isfile/exists is false),
\* unreadable (open or the parse raises an exception the code catches:
\* any for pyproject.toml, IOError for requirements.txt), or holding its entries:
\* project.dependencies for pyproject.toml, the lines for requirements.txt.
File(state, lines) == [state |-> state, lines |-> lines]

Unread == File("unread", <<>>)

Files ==
    {File("absent", <<>>), File("unreadable", <<>>)}
        \cup {File("ok", l) : l \in DepLists}

\* sorted(deps)
RECURSIVE InsertAscending(_, _)
InsertAscending(s, x) ==
    IF s = <<>> THEN <<x>>
    ELSE IF DepRank(x) < DepRank(Head(s)) THEN <<x>> \o s
    ELSE <<Head(s)>> \o InsertAscending(Tail(s), x)

RECURSIVE sorted(_)
sorted(deps) ==
    IF deps = <<>> THEN <<>>
    ELSE InsertAscending(sorted(SubSeq(deps, 1, Len(deps) - 1)), deps[Len(deps)])

\* A local that is None, or a list.
None == [some |-> FALSE, list |-> <<>>]

Some(l) == [some |-> TRUE, list |-> l]

\* The first snapshot taken whether or not uv is installed.
SnapshotDepsWithoutUv(uv, file) ==
    IF file.state = "ok" THEN Some(sorted(file.lines)) ELSE None

\* The first snapshot left in file order.
SnapshotDepsUnsorted(uv, file) ==
    IF uv /\ file.state = "ok" THEN Some(file.lines) ELSE None

\* lines 217-229: before_deps
SnapshotDeps(uv, file) ==
    IF uv /\ file.state = "ok" THEN Some(sorted(file.lines)) ELSE None

\* lines 285-293: after_deps (the file is opened without a test that it exists)
ResnapshotDeps(file) ==
    IF file.state = "ok" THEN Some(sorted(file.lines)) ELSE None

\* lines 232-239 and 315-321: before_reqs, after_reqs
SnapshotReqs(file) ==
    IF file.state = "ok" THEN file.lines ELSE <<>>

\* line 295
PyprojectDiffers(before, after) == after.some /\ before # after

\* line 323
ReqsDiffer(before, after) == before # after


(***************************************************************************)
(* perform_update: the git commands of each action kind (lines 242-277).   *)
(* A command that raises ends the log, unless the code catches it.         *)
(***************************************************************************)
Cmd(c, arg, ok) == [cmd |-> c, arg |-> arg, ok |-> ok]

\* lines 242-257.  The try of lines 247-253 catches the fetch and the reset
\* to origin/<target>.
CheckoutLog(reset, target, exists, ok1, ok2, ok3, ok4) ==
    IF ~reset \/ ~ok1 THEN <<Cmd("checkout", target, ok1)>>
    ELSE IF ~ok2
    THEN <<Cmd("checkout", target, TRUE), Cmd("fetch", NoName, FALSE),
           Cmd("reset", target, ok4)>>
    ELSE IF exists /\ ok3
    THEN <<Cmd("checkout", target, TRUE), Cmd("fetch", NoName, TRUE),
           Cmd("reset", Origin(target), TRUE)>>
    ELSE <<Cmd("checkout", target, TRUE), Cmd("fetch", NoName, TRUE),
           Cmd("reset", Origin(target), FALSE), Cmd("reset", target, ok4)>>

\* A pull that merges in reset mode too.
PullLogMerging(reset, target, exists, ok1, ok2) ==
    IF ~reset THEN <<Cmd("pull", NoName, ok1)>>
    ELSE IF ~ok1 THEN <<Cmd("fetch", NoName, FALSE)>>
    ELSE <<Cmd("fetch", NoName, TRUE), Cmd("pull", NoName, ok2)>>

\* lines 258-266
PullLog(reset, target, exists, ok1, ok2) ==
    IF ~reset THEN <<Cmd("pull", NoName, ok1)>>
    ELSE IF ~ok1 THEN <<Cmd("fetch", NoName, FALSE)>>
    ELSE <<Cmd("fetch", NoName, TRUE), Cmd("reset", Origin(target), exists /\ ok2)>>

\* The hard reset of checkout_pull made in either mode.
CheckoutPullLogResetting(reset, target, exists, ok1, ok2) ==
    IF ~ok1 THEN <<Cmd("checkout", target, FALSE)>>
    ELSE <<Cmd("checkout", target, TRUE), Cmd("reset", Origin(target), exists /\ ok2)>>

\* lines 267-275
CheckoutPullLog(reset, target, exists, ok1, ok2) ==
    IF ~ok1 THEN <<Cmd("checkout", target, FALSE)>>
    ELSE IF reset
    THEN <<Cmd("checkout", target, TRUE), Cmd("reset", Origin(target), exists /\ ok2)>>
    ELSE <<Cmd("checkout", target, TRUE), Cmd("pull", NoName, ok2)>>

\* Every exception of a git command swallowed.
RaisesNothing(log) == FALSE

\* The exception of the log's last command leaves perform_update.
Raises(log) == ~log[Len(log)].ok

(***************************************************************************)
(* The run: select(), then perform_update phase by phase.                  *)
(***************************************************************************)
NoSelection == [action |-> "", target |-> NoName]

Value(action, target) == [action |-> action, target |-> target]

\* No selection counts as empty.
IsEmptySelectionNever(sel) == FALSE

\* not selection  (lines 209 and 549)
IsEmptySelection(sel) == sel = NoSelection

\* The values the menu of check_remote_updates offers (lines 497, 514, 533,
\* 539): the default branch, the active branch, a tag.
MenuValues ==
    {Value("checkout_pull", Main), Value("pull", Main), Value("checkout", T130)}

\* What a caller of perform_update other than the menu may also pass.
DirectValues == {NoSelection, Value("status", Main)}

NoOut ==
    [message |-> "", failure |-> "none", pyproject_diff |-> FALSE,
     uv_choice |-> "none", requirements_diff |-> FALSE, install_choice |-> "none"]

\* An exception leaving perform_update: check_remote_updates prints it (line
\* 554-555); any other caller receives it.
Raise ==
    /\ pc' = "error"
    /\ out' = [out EXCEPT !.failure =
                   IF caller = "check_remote_updates" THEN "printed" ELSE "raised"]

\* lines 548-552: the operator picks an entry of the menu, or cancels.
Select ==
    /\ pc = "select"
    /\ \E v \in MenuValues \cup {NoSelection} :
        /\ selection' = v
        /\ caller' = "check_remote_updates"
        /\ IF IsEmptySelection(v)
           THEN /\ pc' = "cancelled"
                /\ out' = [out EXCEPT !.message = "Cancelled."]
           ELSE /\ pc' = "perform"
                /\ out' = out
    /\ UNCHANGED <<reset_mode, uv_installed, origin_ref, git_log, pyproject_file,
                   reqs_file, before_deps, after_deps, before_reqs, after_reqs>>
    /\ UNCHANGED <<repo_vars, last_call>>

\* perform_update called by other code, with a value no menu entry holds.
CallPerformUpdate ==
    /\ pc = "select"
    /\ \E v \in DirectValues :
        /\ selection' = v
        /\ caller' = "direct"
        /\ pc' = "perform"
    /\ UNCHANGED <<reset_mode, uv_installed, origin_ref, git_log, pyproject_file,
                   reqs_file, before_deps, after_deps, before_reqs, after_reqs, out>>
    /\ UNCHANGED <<repo_vars, last_call>>

\* lines 209-211
ReturnCancelled ==
    /\ pc = "perform"
    /\ IsEmptySelection(selection)
    /\ pc' = "returned"
    /\ out' = [out EXCEPT !.message = "Cancelled."]
    /\ UNCHANGED <<caller, reset_mode, selection, uv_installed, origin_ref, git_log,
                   pyproject_file, reqs_file, before_deps, after_deps, before_reqs,
                   after_reqs>>
    /\ UNCHANGED <<repo_vars, last_call>>

\* lines 213-239: the two snapshots before the git commands.
SnapshotBefore ==
    /\ pc = "perform"
    /\ ~IsEmptySelection(selection)
    /\ \E uv \in BOOLEAN, py \in Files, rq \in Files :
        /\ uv_installed' = uv
        /\ pyproject_file' = [pyproject_file EXCEPT !.before = py]
        /\ reqs_file' = [reqs_file EXCEPT !.before = rq]
        /\ before_deps' = SnapshotDeps(uv, py)
        /\ before_reqs' = SnapshotReqs(rq)
    /\ pc' = "git"
    /\ UNCHANGED <<caller, reset_mode, selection, origin_ref, git_log, after_deps,
                   after_reqs, out>>
    /\ UNCHANGED <<repo_vars, last_call>>

\* The commands ran: the log, and where the run goes from there.
Ran(log, exists) ==
    /\ git_log' = log
    /\ origin_ref' = IF ~reset_mode THEN "unknown"
                     ELSE IF exists THEN "exists" ELSE "missing"
    /\ IF Raises(log) THEN Raise ELSE pc' = "gc" /\ out' = out
    /\ UNCHANGED <<caller, reset_mode, selection, uv_installed, pyproject_file,
                   reqs_file, before_deps, after_deps, before_reqs, after_reqs>>
    /\ UNCHANGED <<repo_vars, last_call>>

\* lines 242-257
GitCheckout ==
    /\ pc = "git"
    /\ selection.action = "checkout"
    /\ \E exists \in BOOLEAN, ok1 \in BOOLEAN, ok2 \in BOOLEAN, ok3 \in BOOLEAN,
          ok4 \in BOOLEAN :
        Ran(CheckoutLog(reset_mode, selection.target, exists, ok1, ok2, ok3, ok4),
            exists)

\* lines 258-266
GitPull ==
    /\ pc = "git"
    /\ selection.action = "pull"
    /\ \E exists \in BOOLEAN, ok1 \in BOOLEAN, ok2 \in BOOLEAN :
        Ran(PullLog(reset_mode, selection.target, exists, ok1, ok2), exists)

\* lines 267-275
GitCheckoutPull ==
    /\ pc = "git"
    /\ selection.action = "checkout_pull"
    /\ \E exists \in BOOLEAN, ok1 \in BOOLEAN, ok2 \in BOOLEAN :
        Ran(CheckoutPullLog(reset_mode, selection.target, exists, ok1, ok2), exists)

\* lines 276-277: an action that is none of the three
UnknownAction ==
    /\ pc = "git"
    /\ selection.action \notin {"checkout", "pull", "checkout_pull"}
    /\ pc' = "returned"
    /\ UNCHANGED <<caller, reset_mode, selection, uv_installed, origin_ref, git_log,
                   pyproject_file, reqs_file, before_deps, after_deps, before_reqs,
                   after_reqs, out>>
    /\ UNCHANGED <<repo_vars, last_call>>

\* lines 279-281: repo.git.gc('--auto'), outside any try
Maintenance ==
    /\ pc = "gc"
    /\ \E ok \in BOOLEAN :
        /\ git_log' = Append(git_log, Cmd("gc", NoName, ok))
        /\ IF ok THEN pc' = "pyproject" /\ out' = out ELSE Raise
    /\ UNCHANGED <<caller, reset_mode, selection, uv_installed, origin_ref,
                   pyproject_file, reqs_file, before_deps, after_deps, before_reqs,
                   after_reqs>>
    /\ UNCHANGED <<repo_vars, last_call>>

\* What install_requirements_uv returns (lines 185-197), by the operator's
\* answer: "sync", "requirements", or None on Cancel.
UvAnswers == {"sync", "requirements", "cancel"}

\* The prompt answered, perform_update goes on to requirements.txt whatever
\* the answer.
AfterUvPromptGoesOn(answer) == "requirements"

\* lines 310-312: if result != "requirements": return
AfterUvPrompt(answer) ==
    IF answer # "requirements" THEN "returned" ELSE "requirements"

\* lines 283-312: the pyproject.toml report.  py is what the file holds now,
\* read only if before_deps is not None; rq is what requirements.txt holds,
\* recorded here when perform_update returns without reading it.
ReportPyproject ==
    /\ pc = "pyproject"
    /\ \E py \in Files, rq \in Files, answer \in UvAnswers :
        /\ pyproject_file' = [pyproject_file EXCEPT !.after = py]
        /\ IF ~before_deps.some
           THEN /\ pc' = "requirements"
                /\ UNCHANGED <<reqs_file, after_deps, out>>
           ELSE /\ after_deps' = ResnapshotDeps(py)
                /\ IF PyprojectDiffers(before_deps, ResnapshotDeps(py))
                   THEN /\ out' = [out EXCEPT !.pyproject_diff = TRUE,
                                              !.uv_choice = answer]
                        /\ pc' = AfterUvPrompt(answer)
                        /\ reqs_file' =
                               IF AfterUvPrompt(answer) = "returned"
                               THEN [reqs_file EXCEPT !.after = rq]
                               ELSE reqs_file
                   ELSE /\ out' = out
                        /\ pc' = "requirements"
                        /\ reqs_file' = reqs_file
    /\ UNCHANGED <<caller, reset_mode, selection, uv_installed, origin_ref, git_log,
                   before_deps, before_reqs, after_reqs>>
    /\ UNCHANGED <<repo_vars, last_call>>

\* What get_appropriate_install_command returns (lines 122-127): a command,
\* or "" on Cancel.
InstallAnswers == {"install", "cancel"}

\* lines 314-336: the requirements.txt report
ReportRequirements ==
    /\ pc = "requirements"
    /\ \E rq \in Files, answer \in InstallAnswers :
        /\ reqs_file' = [reqs_file EXCEPT !.after = rq]
        /\ after_reqs' = SnapshotReqs(rq)
        /\ IF ReqsDiffer(before_reqs, SnapshotReqs(rq))
           THEN out' = [out EXCEPT !.requirements_diff = TRUE,
                                   !.install_choice = answer]
           ELSE out' = out
    /\ pc' = "returned"
    /\ UNCHANGED <<caller, reset_mode, selection, uv_installed, origin_ref, git_log,
                   pyproject_file, before_deps, after_deps, before_reqs>>
    /\ UNCHANGED <<repo_vars, last_call>>

(***************************************************************************)
(* Specifications.                                                         *)
(***************************************************************************)
vars == <<repo_vars, last_call, update_vars>>

\* No run of perform_update is in progress.
UpdateIdle ==
    /\ pc = "idle"
    /\ caller = "none"
    /\ reset_mode = FALSE
    /\ selection = NoSelection
    /\ uv_installed = FALSE
    /\ origin_ref = "unknown"
    /\ git_log = <<>>
    /\ pyproject_file = [before |-> Unread, after |-> Unread]
    /\ reqs_file = [before |-> Unread, after |-> Unread]
    /\ before_deps = None
    /\ after_deps = None
    /\ before_reqs = <<>>
    /\ after_reqs = <<>>
    /\ out = NoOut

\* The lists of at most two tags HEAD may carry, among the repository's.
HeadTagLists(tags) == {h \in SubLists(tags) : Len(h) <= 2}

\* A clone whose last fetch saw all of the remote.
Init ==
    /\ repo_tags \in SubLists(TagCatalog)
    /\ head_tags \in HeadTagLists(repo_tags)
    /\ active_branch \in Branches \cup {NoName}
    /\ tracking \in IF active_branch = NoName THEN {FALSE} ELSE BOOLEAN
    /\ default_branch \in {Main, NoName}
    /\ local_ahead \in [Branches -> 0..MaxBehind]
    /\ remote_ahead = local_ahead
    /\ remote_new_tags = <<>>
    /\ last_call = NoCall
    /\ UpdateIdle

Next ==
    \/ HasRemoteUpdates
    \/ CheckRemoteUpdates
    \/ RemotePush
    \/ RemotePublishTag

Spec == Init /\ [][Next]_vars


(***************************************************************************)
(* SpecTags: tag lists.                                                    *)
(***************************************************************************)
\* Names a tag list is drawn from: three versions, a second name of one of
\* them, and a name that is no version.
TagNames == {T090, T120, T130, V13, TBad}

\* The lists of distinct names (tag names are unique in a repository).
ShortTagLists ==
    {l \in UNION {[1..n -> TagNames] : n \in 0..MaxTags} :
        \A i, j \in 1..Len(l) : i # j => l[i] # l[j]}

\* The tags 2.1, 2.2, ..., 2.n, enumerated from the k-th on and around.
RunTag(i) == Name("", <<2, i>>)

Run(n, k) == [i \in 1..n |-> RunTag(((i + k - 1) % n) + 1)]

LongTagLists ==
    {Run(n, k) : n \in 1..MaxRun, k \in 0..1}
        \cup {<<TBad>> \o Run(n, 0) \o <<V13>> : n \in 1..MaxRun}

InitTags ==
    /\ repo_tags \in ShortTagLists \cup LongTagLists
    /\ head_tags \in {<<>>} \cup {<<repo_tags[i]>> : i \in 1..Len(repo_tags)}
    /\ active_branch \in {Main, NoName}
    /\ tracking = (active_branch = Main)
    /\ default_branch = Main
    /\ local_ahead = [b \in Branches |-> 0]
    /\ remote_ahead = local_ahead
    /\ remote_new_tags = <<>>
    /\ last_call = NoCall
    /\ UpdateIdle

NextTags ==
    \/ GetSortedTags
    \/ CheckRemoteUpdates

SpecTags == InitTags /\ [][NextTags]_vars

(***************************************************************************)
(* SpecUpdate: one run from select() through perform_update.               *)
(***************************************************************************)
InitUpdate ==
    /\ repo_tags = <<T120, T130>>
    /\ head_tags = <<T120>>
    /\ active_branch = Main
    /\ tracking = TRUE
    /\ default_branch = Main
    /\ local_ahead = [b \in Branches |-> 0]
    /\ remote_ahead = local_ahead
    /\ remote_new_tags = <<>>
    /\ last_call = NoCall
    /\ pc = "select"
    /\ caller = "none"
    /\ reset_mode \in BOOLEAN
    /\ selection = NoSelection
    /\ uv_installed = FALSE
    /\ origin_ref = "unknown"
    /\ git_log = <<>>
    /\ pyproject_file = [before |-> Unread, after |-> Unread]
    /\ reqs_file = [before |-> Unread, after |-> Unread]
    /\ before_deps = None
    /\ after_deps = None
    /\ before_reqs = <<>>
    /\ after_reqs = <<>>
    /\ out = NoOut

NextUpdate ==
    \/ Select
    \/ CallPerformUpdate
    \/ ReturnCancelled
    \/ SnapshotBefore
    \/ GitCheckout
    \/ GitPull
    \/ GitCheckoutPull
    \/ UnknownAction
    \/ Maintenance
    \/ ReportPyproject
    \/ ReportRequirements

SpecUpdate == InitUpdate /\ [][NextUpdate]_vars


(***************************************************************************)
(* Properties.                                                             *)
(*                                                                         *)
(* After a call of has_remote_updates or check_remote_updates whose fetch  *)
(* succeeded, the repository variables hold what the call read: the local  *)
(* refs and tags as its fetch left them.                                   *)
(***************************************************************************)
DetectCall == last_call.fn = "has_remote_updates"

MenuCall == last_call.fn = "check_remote_updates"

\* The candidates a result of has_remote_updates holds.
Candidates(r) == IF r.found THEN {r} ELSE {}

\* The tracked branch is ahead of the active branch.
BranchBehind ==
    /\ active_branch # NoName
    /\ tracking
    /\ local_ahead[active_branch] > 0

\* Some valid tag is strictly newer than the current tag, itself valid.
NewerTagExists ==
    /\ DetectCurrentTag(active_branch, head_tags) # NoName
    /\ IsValidVersion(DetectCurrentTag(active_branch, head_tags))
    /\ \E i \in 1..Len(repo_tags) :
           /\ IsValidVersion(repo_tags[i])
           /\ VersionGreater(repo_tags[i], DetectCurrentTag(active_branch, head_tags))

\* The remote's default branch is ahead of HEAD.
DefaultBehind ==
    /\ default_branch # NoName
    /\ local_ahead[default_branch] > 0

\* C1, as claimed: has_remote_updates evaluates the three categories
\* independently, so that each category whose condition holds yields its
\* candidate whatever the other categories yield.
C1_Independent ==
    (DetectCall /\ last_call.fault = "none") =>
        /\ BranchBehind =>
               \E c \in Candidates(last_call.result) : c.type = "branch"
        /\ NewerTagExists =>
               \E c \in Candidates(last_call.result) : c.type = "tag"
        /\ (DefaultBehind /\ active_branch # default_branch) =>
               \E c \in Candidates(last_call.result) : c.type = "default_branch"

\* C1, amended: has_remote_updates returns at most one candidate, that of the
\* first category, in the order Branch, Tag, DefaultBranch, whose condition
\* holds, and none when no condition holds (no lookup failing).
C1_FirstCategory ==
    (DetectCall /\ last_call.fault = "none") =>
        /\ Cardinality(Candidates(last_call.result)) <= 1
        /\ BranchBehind =>
               /\ last_call.result.type = "branch"
               /\ last_call.result.behind_count = local_ahead[active_branch]
        /\ (~BranchBehind /\ NewerTagExists) =>
               /\ last_call.result.type = "tag"
               /\ last_call.result.current =
                      DetectCurrentTag(active_branch, head_tags)
        /\ (~BranchBehind /\ ~NewerTagExists /\ DefaultBehind) =>
               /\ last_call.result.type = "default_branch"
               /\ last_call.result.latest = default_branch
        /\ (~BranchBehind /\ ~NewerTagExists /\ ~DefaultBehind) =>
               ~last_call.result.found

\* A repository behind its tracked branch with a newer tag published: the
\* detector answered with the Branch candidate alone.
C1_Witness ==
    /\ DetectCall
    /\ last_call.fault = "none"
    /\ BranchBehind
    /\ NewerTagExists
    /\ last_call.result.type = "branch"

\* The entries of a menu that pull the tracked branch.
PullEntries(choices) == {i \in 1..Len(choices) : choices[i].action = "pull"}

\* C4: on a branch with a tracking reference that is zero commits ahead, the
\* menu check_remote_updates builds holds no Pull entry without reset and
\* exactly one Pull entry, for the active branch, with reset.
C4_PullEntry ==
    (/\ MenuCall
     /\ last_call.outcome # "error"
     /\ active_branch # NoName
     /\ tracking
     /\ local_ahead[active_branch] = 0) =>
        IF last_call.reset
        THEN /\ last_call.outcome = "menu"
             /\ Cardinality(PullEntries(last_call.choices)) = 1
             /\ \A i \in PullEntries(last_call.choices) :
                    /\ last_call.choices[i].target = active_branch
                    /\ last_call.choices[i].behind_label = 0
        ELSE PullEntries(last_call.choices) = {}

\* Reset mode, nothing to pull, and the menu offers the pull all the same.
C4_Witness ==
    /\ MenuCall
    /\ last_call.outcome = "menu"
    /\ last_call.reset
    /\ active_branch # NoName
    /\ tracking
    /\ local_ahead[active_branch] = 0
    /\ Cardinality(PullEntries(last_call.choices)) = 1

\* The targets of the tag entries of a menu, in menu order.
TagTargets(choices) ==
    LET tags == SelectSeq(choices, LAMBDA c : c.action = "checkout")
    IN  [i \in 1..Len(tags) |-> tags[i].target]

Min(a, b) == IF a < b THEN a ELSE b

\* C5, as claimed: with N valid tags, the tag part of the menu is the newest
\* valid tag followed by the min(N-1, 10) next-newest ones, in descending
\* order, each once.
C5_NewestPlusTen ==
    (MenuCall /\ last_call.outcome = "menu") =>
        TagTargets(last_call.choices) =
            SubSeq(get_sorted_tags(repo_tags), 1,
                   Min(Len(ValidTags(repo_tags)), OtherTagsSlice + 1))

\* C7, as claimed: get_sorted_tags returns only tags that parse, strictly
\* descending by version.
C7_StrictlyDescending ==
    last_call.fn = "get_sorted_tags" =>
        /\ \A i \in 1..Len(last_call.sorted) : IsValidVersion(last_call.sorted[i])
        /\ \A i \in 1..(Len(last_call.sorted) - 1) :
               VersionGreater(last_call.sorted[i], last_call.sorted[i + 1])

\* The place of a name in a list of distinct names.
IndexIn(s, x) == CHOOSE i \in 1..Len(s) : s[i] = x

SameVersion(a, b) == ~VersionGreater(a, b) /\ ~VersionGreater(b, a)

\* C7, amended: get_sorted_tags returns exactly the tags that parse, each
\* once, in descending order of version where no entry is older than the
\* next one; names of one version stay in their enumeration order.
C7_Descending ==
    last_call.fn = "get_sorted_tags" =>
        /\ Range(last_call.sorted) = {t \in Range(repo_tags) : IsValidVersion(t)}
        /\ Len(last_call.sorted) = Cardinality(Range(last_call.sorted))
        /\ \A i \in 1..(Len(last_call.sorted) - 1) :
               ~VersionGreater(last_call.sorted[i + 1], last_call.sorted[i])
        /\ \A i, j \in 1..Len(last_call.sorted) :
               (i < j /\ SameVersion(last_call.sorted[i], last_call.sorted[j])) =>
                   IndexIn(repo_tags, last_call.sorted[i])
                       < IndexIn(repo_tags, last_call.sorted[j])

\* Two names of one version and a name that is no version were sorted.
C7_Witness ==
    /\ last_call.fn = "get_sorted_tags"
    /\ InSeq(TBad, repo_tags)
    /\ Len(last_call.sorted) >= 3
    /\ \E i \in 1..(Len(last_call.sorted) - 1) :
           SameVersion(last_call.sorted[i], last_call.sorted[i + 1])

\* C8: two calls of has_remote_updates in succession, with no change to the
\* remote (its commits, its tags, what fails when it is asked) between them,
\* return the same result.
C8_Idempotent ==
    [][(/\ last_call.fn = "has_remote_updates"
        /\ last_call'.fn = "has_remote_updates"
        /\ last_call'.fault = last_call.fault)
           => last_call'.result = last_call.result]_vars

\* A second call in succession that found an update.
C8_Witness ==
    /\ DetectCall
    /\ last_call.repeat
    /\ last_call.fault = "none"
    /\ last_call.result.found

\* The menu pass ran into a failure that the code does not catch.
MenuAborts ==
    \/ last_call.fault = "fetch"
    \/ last_call.fault = "behind" /\ active_branch # NoName /\ tracking

\* C9, as claimed: a failure in a detection pass costs only the category it
\* occurs in; the pass is not aborted and the other categories still yield
\* their candidates and menu entries.
C9_Degrades ==
    /\ MenuCall =>
           /\ last_call.outcome # "error"
           /\ LatestTag(repo_tags) # NoName =>
                  \E i \in 1..Len(last_call.choices) :
                      last_call.choices[i].action = "checkout"
    /\ (DetectCall /\ last_call.fault \in {"fetch", "behind"} /\ NewerTagExists) =>
           last_call.result.type = "tag"

\* The result without its DefaultBranch candidate.
WithoutDefault(r) == IF r.type = "default_branch" THEN NoUpdate ELSE r

\* C9, amended: only a failure of the default-branch lookup is contained.  In
\* check_remote_updates a failing git remote show origin drops the
\* default-branch entry alone; in has_remote_updates a failing count of
\* HEAD..origin/<default>, or a failing git remote show origin, drops the
\* DefaultBranch candidate alone.  A failing fetch, or a failing count of the
\* tracked branch, aborts the pass: has_remote_updates returns (False, {}),
\* check_remote_updates reports an error and presents no menu.
C9_Contained ==
    /\ (MenuCall /\ MenuAborts) =>
           last_call.outcome = "error" /\ last_call.choices = <<>>
    /\ (MenuCall /\ ~MenuAborts) =>
           /\ last_call.outcome # "error"
           /\ last_call.choices =
                  SelectSeq(MenuChoices(last_call.reset, "none", active_branch,
                                tracking, local_ahead, repo_tags, head_tags,
                                default_branch),
                            LAMBDA c : last_call.fault # "show"
                                           \/ c.action # "checkout_pull")
    /\ (DetectCall /\ MenuAborts) => ~last_call.result.found
    /\ (DetectCall /\ last_call.fault \in {"show", "defbehind"}) =>
           last_call.result =
               WithoutDefault(has_remote_updates("none", active_branch, tracking,
                                  local_ahead, repo_tags, head_tags,
                                  default_branch))

\* git remote show origin failed where the default branch would have been
\* offered, and the menu was presented with the other entries.
C9_Witness ==
    /\ MenuCall
    /\ last_call.fault = "show"
    /\ last_call.outcome = "menu"
    /\ default_branch # NoName
    /\ active_branch # default_branch
    /\ \E i \in 1..Len(last_call.choices) : last_call.choices[i].action = "checkout"


(***************************************************************************)
(* Properties of perform_update.                                           *)
(***************************************************************************)
\* The git commands of the selected action have run (or raised).
GitDone == pc \in {"gc", "pyproject", "requirements", "returned", "error"}
               /\ git_log # <<>>

Ran_(c) == \E i \in 1..Len(git_log) : git_log[i].cmd = c

\* C2: with reset, no action kind ever executes a pull; a Pull action with
\* reset on target T executes the fetch first and, the fetch done, the hard
\* reset to origin/T next, and no other checkout, pull or reset.
C2_ResetNeverPulls ==
    reset_mode =>
        /\ ~Ran_("pull")
        /\ (selection.action = "pull" /\ GitDone) =>
               /\ git_log[1].cmd = "fetch"
               /\ git_log[1].ok =>
                      /\ Len(git_log) >= 2
                      /\ git_log[2] \in
                             {Cmd("reset", Origin(selection.target), ok) :
                                  ok \in BOOLEAN}
               /\ \A i \in 1..Len(git_log) :
                      /\ git_log[i].cmd \in {"fetch", "reset", "gc"}
                      /\ git_log[i].cmd = "reset" => i = 2

\* A Pull with reset that fetched and hard-reset to origin/main.
C2_Witness ==
    /\ reset_mode
    /\ selection = Value("pull", Main)
    /\ Len(git_log) >= 2
    /\ git_log[1] = Cmd("fetch", NoName, TRUE)
    /\ git_log[2] = Cmd("reset", Origin(Main), TRUE)
    /\ pc = "returned"

\* The i-th command is a checkout, pull or reset that failed.
FailedAt(i) ==
    /\ git_log[i].cmd \in {"checkout", "pull", "reset"}
    /\ ~git_log[i].ok

\* Nothing of what follows the git commands has run.
NothingAfterGit ==
    /\ ~Ran_("gc")
    /\ pyproject_file.after = Unread
    /\ reqs_file.after = Unread
    /\ ~out.pyproject_diff
    /\ ~out.requirements_diff
    /\ out.uv_choice = "none"
    /\ out.install_choice = "none"

\* C3, as claimed: a checkout, pull or reset that fails ends the attempt
\* there; the failure is reported and neither gc, nor the after-snapshots,
\* nor the diffs, nor the prompts follow.
C3_FailureEndsAttempt ==
    \A i \in 1..Len(git_log) :
        FailedAt(i) =>
            /\ i = Len(git_log)
            /\ pc = "error"
            /\ out.failure # "none"
            /\ NothingAfterGit

\* The failure the try of lines 247-253 catches: in a Checkout with reset,
\* the hard reset to origin/<target>.
CaughtAt(i) ==
    /\ selection.action = "checkout"
    /\ reset_mode
    /\ git_log[i] = Cmd("reset", Origin(selection.target), FALSE)

\* C3, amended: a checkout, pull or reset that fails ends the attempt there,
\* reported and with no gc, after-snapshot, diff or prompt following, except
\* the hard reset to origin/<target> of a Checkout with reset: its failure
\* is caught and a hard reset to <target> itself follows, whose failure does
\* end the attempt.
C3_UncaughtFailureEndsAttempt ==
    \A i \in 1..Len(git_log) :
        FailedAt(i) =>
            IF CaughtAt(i)
            THEN /\ i < Len(git_log)
                 /\ git_log[i + 1].cmd = "reset"
                 /\ git_log[i + 1].arg = selection.target
            ELSE /\ i = Len(git_log)
                 /\ pc = "error"
                 /\ out.failure =
                        IF caller = "check_remote_updates" THEN "printed"
                        ELSE "raised"
                 /\ NothingAfterGit

\* A pull that failed: the run stopped at it and printed the error.
C3_Witness ==
    /\ selection.action = "pull"
    /\ git_log = <<Cmd("pull", NoName, FALSE)>>
    /\ pc = "error"
    /\ out.failure = "printed"

Count(s, d) == Cardinality({i \in 1..Len(s) : s[i] = d})

\* The same entries, each as many times.
SameMultiset(s, t) == \A d \in Deps : Count(s, d) = Count(t, d)

\* pyproject.toml was compared: read before and after, and parsed both times.
PyprojectCompared ==
    /\ uv_installed
    /\ pyproject_file.before.state = "ok"
    /\ pyproject_file.after.state = "ok"

\* perform_update returned at line 312, before requirements.txt was compared.
ReturnedAtUvPrompt ==
    /\ out.pyproject_diff
    /\ AfterUvPrompt(out.uv_choice) = "returned"

\* requirements.txt was compared, and read both times.
ReqsCompared ==
    /\ ~ReturnedAtUvPrompt
    /\ reqs_file.before.state = "ok"
    /\ reqs_file.after.state = "ok"

\* C6: the comparison of project.dependencies is independent of order (the
\* same multiset in another order reports no change, and a different multiset
\* does), that of requirements.txt is not (the same lines in another order
\* report a change).
C6_OrderSensitivity ==
    /\ PyprojectCompared =>
           (out.pyproject_diff <=>
                ~SameMultiset(pyproject_file.before.lines,
                              pyproject_file.after.lines))
    /\ ReqsCompared =>
           (out.requirements_diff <=>
                reqs_file.before.lines # reqs_file.after.lines)

\* Both manifests hold a, b before and b, a after: no pyproject report, a
\* requirements report.
C6_Witness ==
    /\ uv_installed
    /\ pyproject_file.before = File("ok", <<"a", "b">>)
    /\ pyproject_file.after = File("ok", <<"b", "a">>)
    /\ reqs_file.before = File("ok", <<"a", "b">>)
    /\ reqs_file.after = File("ok", <<"b", "a">>)
    /\ ~out.pyproject_diff
    /\ out.requirements_diff

\* C10, as claimed: gc --auto is best-effort; when it fails the run is not
\* aborted and the dependency diff reporter still executes.
C10_GcBestEffort ==
    (\E i \in 1..Len(git_log) : git_log[i].cmd = "gc" /\ ~git_log[i].ok) =>
        /\ pc # "error"
        /\ out.failure = "none"

\* A manifest that was absent or unreadable when it was looked at.
Missing(file) == file.state \in {"absent", "unreadable"}

\* C11, as claimed: a manifest absent or unreadable at the before-snapshot or
\* at the after-snapshot has its comparison skipped: no diff is reported and
\* no reinstall decision is asked for that source.
C11_SkippedWhenMissing ==
    /\ (Missing(pyproject_file.before) \/ Missing(pyproject_file.after)) =>
           /\ ~out.pyproject_diff
           /\ out.uv_choice = "none"
    /\ (Missing(reqs_file.before) \/ Missing(reqs_file.after)) =>
           /\ ~out.requirements_diff
           /\ out.install_choice = "none"

\* Both manifests were there before and after the action, and both differ.
BothDiffer ==
    /\ PyprojectCompared
    /\ ~SameMultiset(pyproject_file.before.lines, pyproject_file.after.lines)
    /\ reqs_file.before.state = "ok"
    /\ reqs_file.after.state = "ok"
    /\ reqs_file.before.lines # reqs_file.after.lines

\* C12, as claimed: when the dependencies of pyproject.toml and
\* requirements.txt both differ, a diff is reported and a reinstall decision
\* asked for each of the two, whatever the answer at the pyproject prompt.
C12_BothReported ==
    (pc = "returned" /\ BothDiffer) =>
        /\ out.pyproject_diff
        /\ out.uv_choice # "none"
        /\ out.requirements_diff
        /\ out.install_choice # "none"

\* C12, amended: when both differ, the pyproject diff is reported and its
\* prompt shown; the requirements.txt diff and prompt follow only if the
\* answer there is "use requirements.txt in next task".  On "uv sync" or
\* Cancel perform_update returns without reading requirements.txt again.
C12_RequirementsOnRequest ==
    (pc = "returned" /\ BothDiffer) =>
        /\ out.pyproject_diff
        /\ out.uv_choice # "none"
        /\ IF out.uv_choice = "requirements"
           THEN /\ out.requirements_diff
                /\ out.install_choice # "none"
                /\ after_reqs = reqs_file.after.lines
           ELSE /\ ~out.requirements_diff
                /\ out.install_choice = "none"
                /\ after_reqs = <<>>

\* Both differ and the operator chose uv sync: one report, one prompt.
C12_Witness ==
    /\ pc = "returned"
    /\ BothDiffer
    /\ out.uv_choice = "sync"
    /\ out.pyproject_diff
    /\ ~out.requirements_diff

\* C13: an empty or cancelled selection is a no-op.  Once select() returned
\* nothing, or perform_update was given an empty selection, no git command
\* runs, no manifest is read, no prompt is shown and no error is reported;
\* the run ends printing "Cancelled.".
C13_CancelIsNoOp ==
    (selection = NoSelection /\ caller # "none") =>
        /\ pc \in {"perform", "cancelled", "returned"}
        /\ git_log = <<>>
        /\ pyproject_file = [before |-> Unread, after |-> Unread]
        /\ reqs_file = [before |-> Unread, after |-> Unread]
        /\ before_deps = None
        /\ before_reqs = <<>>
        /\ out \in {NoOut, [NoOut EXCEPT !.message = "Cancelled."]}
        /\ pc # "perform" => out.message = "Cancelled."

\* perform_update was handed an empty selection and returned.
C13_Witness ==
    /\ pc = "returned"
    /\ caller = "direct"
    /\ selection = NoSelection
    /\ out.message = "Cancelled."

\* C14: every result of has_remote_updates satisfies the candidate
\* invariant.  A Tag candidate has current and latest both parsing as
\* versions, latest strictly the greater; a Branch or DefaultBranch candidate
\* has behind_count > 0; the boolean is True exactly when the dictionary
\* holds a candidate, and (False, {}) otherwise.
C14_CandidateInvariant ==
    DetectCall =>
        /\ last_call.result.found <=>
               last_call.result.type \in {"branch", "tag", "default_branch"}
        /\ ~last_call.result.found => last_call.result = NoUpdate
        /\ last_call.result.type = "tag" =>
               /\ IsValidVersion(last_call.result.current)
               /\ IsValidVersion(last_call.result.latest)
               /\ VersionGreater(last_call.result.latest, last_call.result.current)
        /\ last_call.result.type \in {"branch", "default_branch"} =>
               last_call.result.behind_count > 0

\* The detector returned a Tag candidate.
C14_Witness ==
    /\ DetectCall
    /\ last_call.result.found
    /\ last_call.result.type = "tag"
    /\ last_call.result.latest = T130

\* The entry of the newest valid tag: the first checkout entry of the menu.
NewestTagEntry(choices) ==
    choices[CHOOSE i \in 1..Len(choices) :
                /\ choices[i].action = "checkout"
                /\ \A j \in 1..(i - 1) : choices[j].action # "checkout"]

\* C15, as claimed: check_remote_updates takes as current tag, among the
\* tags at HEAD, the one named like the active branch if there is one and
\* the first otherwise, which is the tag has_remote_updates takes; the
\* newest valid tag is marked latest exactly when its version is strictly
\* greater than that tag's.
C15_CurrentTagRule ==
    (MenuCall /\ last_call.outcome = "menu" /\ LatestTag(repo_tags) # NoName) =>
        /\ MenuCurrentTag(active_branch, head_tags)
               = DetectCurrentTag(active_branch, head_tags)
        /\ NewestTagEntry(last_call.choices).target = LatestTag(repo_tags)
        /\ NewestTagEntry(last_call.choices).latest_label
               <=> IsNewer(LatestTag(repo_tags),
                           DetectCurrentTag(active_branch, head_tags))

\* C16, as claimed: has_remote_updates returns a DefaultBranch candidate
\* only when HEAD is detached or the active branch is not the remote's
\* default branch; on the default branch it returns none, with or without a
\* tracking reference.
C16_DefaultOnlyWhenElsewhere ==
    (DetectCall /\ last_call.result.type = "default_branch") =>
        \/ active_branch = NoName
        \/ active_branch # default_branch

\* A hard reset to ref was executed.
ResetTo(ref) ==
    \E i \in 1..Len(git_log) : git_log[i].cmd = "reset" /\ git_log[i].arg = ref

\* C17, as claimed: a Checkout with reset on target T, the checkout done,
\* hard-resets to origin/T whenever that ref exists and to T itself only
\* when it does not, whether or not the fetch in between succeeded.
C17_ResetRefByExistence ==
    (/\ selection.action = "checkout"
     /\ reset_mode
     /\ git_log # <<>>
     /\ git_log[1] = Cmd("checkout", selection.target, TRUE)) =>
        /\ origin_ref = "exists" =>
               /\ ResetTo(Origin(selection.target))
               /\ ~ResetTo(selection.target)
        /\ origin_ref = "missing" => ResetTo(selection.target)

\* The place of an entry's kind in the priority order of the menu.
Rank(c) ==
    CASE c.action = "checkout_pull" -> 1
      [] c.action = "pull" -> 2
      [] c.action = "checkout" -> 3
      [] c = SeparatorChoice -> 4
      [] c = CancelChoice -> 5
      [] OTHER -> 0

\* The default branch was resolved and HEAD is not on it.
DefaultOffered ==
    /\ last_call.fault # "show"
    /\ default_branch # NoName
    /\ (active_branch = NoName \/ active_branch # default_branch)

\* The tracked branch is behind, or reset mode asks for it all the same.
PullOffered ==
    /\ active_branch # NoName
    /\ tracking
    /\ (local_ahead[active_branch] > 0 \/ last_call.reset)

TagsOffered == \E i \in 1..Len(repo_tags) : IsValidVersion(repo_tags[i])

EntriesOf(m, action) == {i \in 1..Len(m) : m[i].action = action}

\* C18: a menu of check_remote_updates lists the default-branch entry
\* (there exactly when the default branch was resolved and HEAD is detached
\* or on another branch), then the pull entry of the tracked branch, then
\* the newest valid tag, then older valid tags in descending order, each
\* once, and Cancel last; when no category has an entry, no menu is
\* presented and "No updates available." is reported.
C18_MenuOrder ==
    (MenuCall /\ last_call.outcome # "error") =>
        LET m == last_call.presented
            tags == TagTargets(m)
        IN  /\ last_call.outcome = "no_updates"
                   <=> ~(DefaultOffered \/ PullOffered \/ TagsOffered)
            /\ last_call.outcome = "no_updates" => m = <<>>
            /\ last_call.outcome = "menu" =>
                   /\ m[Len(m)] = CancelChoice
                   /\ \A i, j \in 1..Len(m) :
                          i < j => /\ Rank(m[i]) > 0
                                   /\ Rank(m[i]) <= Rank(m[j])
                                   /\ Rank(m[i]) # 3 => Rank(m[i]) < Rank(m[j])
                   /\ EntriesOf(m, "checkout_pull") # {} <=> DefaultOffered
                   /\ \A i \in EntriesOf(m, "checkout_pull") :
                          m[i].target = default_branch
                   /\ EntriesOf(m, "pull") # {} <=> PullOffered
                   /\ \A i \in EntriesOf(m, "pull") : m[i].target = active_branch
                   /\ tags # <<>> <=> TagsOffered
                   /\ tags # <<>> => tags[1] = LatestTag(repo_tags)
                   /\ \A i \in 1..Len(tags) :
                          /\ InSeq(tags[i], repo_tags)
                          /\ IsValidVersion(tags[i])
                   /\ \A i, j \in 1..Len(tags) :
                          i < j => /\ tags[i] # tags[j]
                                   /\ ~VersionGreater(tags[j], tags[i])

\* A menu with an entry of every kind.
C18_Witness ==
    /\ MenuCall
    /\ last_call.outcome = "menu"
    /\ EntriesOf(last_call.presented, "checkout_pull") # {}
    /\ EntriesOf(last_call.presented, "pull") # {}
    /\ Len(TagTargets(last_call.presented)) >= 2

\* Nothing to offer: no menu.
C18_WitnessNoUpdates ==
    /\ MenuCall
    /\ last_call.outcome = "no_updates"
    /\ last_call.fault = "none"

\* pyproject.toml was readable before and after the action, which succeeded,
\* and its sorted project.dependencies differ.
PyprojectChanged ==
    /\ pyproject_file.before.state = "ok"
    /\ pyproject_file.after.state = "ok"
    /\ sorted(pyproject_file.before.lines) # sorted(pyproject_file.after.lines)

\* C19, as claimed: whenever pyproject.toml is readable before and after a
\* successful action and its sorted dependencies differ, the pyproject diff
\* is reported and the reinstall decision asked, whichever installer tools
\* the machine has.
C19_IndependentOfUv ==
    PyprojectChanged =>
        /\ out.pyproject_diff
        /\ out.uv_choice # "none"

\* C19, amended: in that case the pyproject diff is reported and the
\* decision asked exactly when uv is installed; without uv pyproject.toml is
\* not read, before_deps stays None and nothing is reported for it.
C19_OnlyWithUv ==
    PyprojectChanged =>
        /\ out.pyproject_diff <=> uv_installed
        /\ out.uv_choice # "none" <=> uv_installed
        /\ ~uv_installed => before_deps = None /\ after_deps = None

\* No uv, changed dependencies, and the run returned without a word of them.
C19_Witness ==
    /\ PyprojectChanged
    /\ ~uv_installed
    /\ pc = "returned"
    /\ ~out.pyproject_diff

\* C20: with reset off, no run executes a hard reset, whatever the action,
\* the selection and the failures met; the commands are checkouts, pulls and
\* the gc.
C20_NoResetWithoutFlag ==
    ~reset_mode =>
        /\ ~Ran_("reset")
        /\ ~Ran_("fetch")
        /\ \A i \in 1..Len(git_log) :
               git_log[i].cmd \in {"checkout", "pull", "gc"}

\* A checkout-and-pull of the default branch, reset off, carried through.
C20_Witness ==
    /\ ~reset_mode
    /\ selection = Value("checkout_pull", Main)
    /\ pc = "returned"
    /\ Len(git_log) = 3
    /\ git_log[1] = Cmd("checkout", Main, TRUE)
    /\ git_log[2] = Cmd("pull", NoName, TRUE)

=============================================================================
